---------------------------- MODULE Spec2Model ----------------------------
(***************************************************************************)
(* mfe-sentry: the error classification and capture gating of MFESentry    *)
(* (the class with handleOnError / handleUnhandledRejection) and of        *)
(* src/utils.ts.                                                           *)
(*                                                                         *)
(* JavaScript values are records tagged by "kind".  A string is a sequence *)
(* of atoms: URL text is a sequence of characters, message text a sequence *)
(* of tokens (one token is one run of text the onerror regular expression  *)
(* treats as a unit).  An absent object key reads as Undefined, as it does *)
(* in JavaScript.                                                          *)
(***************************************************************************)
EXTENDS Integers, Sequences, FiniteSets, TLC

VARIABLES hub, client, appJSFile, customEventFilter, call

vars == <<hub, client, appJSFile, customEventFilter, call>>

---------------------------------------------------------------------------
(* Bounds of the exhaustive input sets.                                    *)

MaxUrlLen == 2
MaxListLen == 2
MaxMsgLen == 4
MaxFrames == 2

---------------------------------------------------------------------------
(* JavaScript values.                                                      *)

Undefined == [kind |-> "undefined"]
Null == [kind |-> "null"]
Str(s) == [kind |-> "string", str |-> s]
Num(n) == [kind |-> "number", n |-> n]
Bool(b) == [kind |-> "boolean", b |-> b]
Arr(items) == [kind |-> "array", items |-> items]
Symbol == [kind |-> "symbol"]
NaN == [kind |-> "NaN"]

Truthy(v) ==
    CASE v.kind = "undefined" -> FALSE
      [] v.kind = "null" -> FALSE
      [] v.kind = "NaN" -> FALSE
      [] v.kind = "string" -> Len(v.str) > 0
      [] v.kind = "number" -> v.n # 0
      [] v.kind = "boolean" -> v.b
      [] OTHER -> TRUE

isString(v) == v.kind = "string"

isPrimitive(v) ==
    v.kind \in {"undefined", "null", "string", "number", "boolean", "symbol", "NaN"}

SeqsUpTo(S, n) == UNION {[1..k -> S] : k \in 0..n}

\* String.prototype.includes: sub occurs in s as a contiguous run.
StrIncludes(s, sub) ==
    \E i \in 0..(Len(s) - Len(sub)) : SubSeq(s, i + 1, i + Len(sub)) = sub

\* A RegExp of the fragment  ^? (char | .)* $?  and String.prototype.match
\* against it: some run of s matches the body at a place the anchors allow.
RegExp(anchorStart, body, anchorEnd) ==
    [kind |-> "RegExp", anchorStart |-> anchorStart, body |-> body,
     anchorEnd |-> anchorEnd]

StrMatch(s, re) ==
    \E i \in 1..(Len(s) - Len(re.body) + 1) :
        /\ re.anchorStart => i = 1
        /\ re.anchorEnd => i + Len(re.body) - 1 = Len(s)
        /\ \A k \in 1..Len(re.body) :
              re.body[k] = "." \/ re.body[k] = s[i + k - 1]

---------------------------------------------------------------------------
(* Property access.  Reading a key an object lacks gives Undefined;        *)
(* reading a key of undefined or null is a TypeError (Throw).              *)

Get(v, key) == IF key \in DOMAIN v THEN v[key] ELSE Undefined

Throw == [kind |-> "throw", error |-> "TypeError"]

Member(v, key) ==
    IF v.kind \in {"undefined", "null", "throw"} THEN Throw ELSE Get(v, key)

First(v) ==
    IF v.kind \in {"undefined", "null", "throw"} THEN Throw
    ELSE IF v.kind = "array" /\ Len(v.items) > 0 THEN v.items[1]
    ELSE Undefined

\* try { ... } catch { }: a TypeError leaves the variable undefined.
Caught(v) == IF v.kind = "throw" THEN Undefined ELSE v

\* Class tests of @sentry/utils (Object.prototype.toString / instanceof).
isErrorEvent(v) == v.kind = "ErrorEvent"
isDOMError(v) == v.kind = "DOMError"
isDOMException(v) == v.kind = "DOMException"
isError(v) == v.kind \in {"Error", "DOMException"}
isPlainObject(v) == v.kind = "Object"
isEvent(v) == v.kind \in {"Event", "PromiseRejectionEvent", "CustomEvent", "ErrorEvent"}

\* String(v) on the values of the model.  (A template literal `${v}` is
\* the same except on a symbol, where it is a TypeError.)
ToStr(v) ==
    CASE v.kind = "string" -> v.str
      [] v.kind = "undefined" -> <<"undefined">>
      [] v.kind = "null" -> <<"null">>
      [] v.kind = "number" -> <<"0">>
      [] v.kind = "boolean" -> <<"true">>
      [] v.kind = "NaN" -> <<"NaN">>
      [] v.kind = "symbol" -> <<"Symbol(x)">>
      [] v.kind = "array" -> <<"1,2">>
      [] OTHER -> <<"[object Object]">>

---------------------------------------------------------------------------
(* Canonical events.                                                       *)

Frame(filename, fn, lineno, colno) ==
    [kind |-> "object", filename |-> filename, function |-> fn,
     lineno |-> lineno, colno |-> colno, in_app |-> Bool(TRUE)]

Exception(type, value, stacktrace, mechanism) ==
    [kind |-> "object", type |-> type, value |-> value,
     stacktrace |-> stacktrace, mechanism |-> mechanism]

EmptyObject == Exception(Undefined, Undefined, Undefined, Undefined)

Stacktrace(frames) == [kind |-> "object", frames |-> frames]

Exceptions(values) == [kind |-> "object", values |-> values]

Event(exception, message, extra, tags, level) ==
    [kind |-> "event", exception |-> exception, message |-> message,
     extra |-> extra, tags |-> tags, level |-> level]

Mechanism(type, handled, synthetic) ==
    [kind |-> "object", type |-> type, handled |-> handled, synthetic |-> synthetic]

\* event.exception.values, empty where a step of the path is missing.
ValuesOf(event) ==
    IF Get(event, "exception").kind = "object"
       /\ Get(event.exception, "values").kind = "array"
    THEN event.exception.values.items
    ELSE <<>>

\* event.exception.values[0] with every step of the path guarded.
FirstException(event) ==
    IF Len(ValuesOf(event)) > 0 THEN ValuesOf(event)[1] ELSE Undefined

\* values[0] = values[0] || {}
FirstOrEmpty(event) ==
    IF Truthy(FirstException(event)) THEN FirstException(event) ELSE EmptyObject

\* event.exception.values[0] = ex, creating exception and values if absent.
PutFirstException(event, ex) ==
    [event EXCEPT !.exception =
        Exceptions(Arr(IF Len(ValuesOf(event)) > 0
                       THEN [ValuesOf(event) EXCEPT ![1] = ex]
                       ELSE <<ex>>))]

FillTypeValue(first, value, type) ==
    [first EXCEPT
        !.value = IF Truthy(@) THEN @
                  ELSE IF Truthy(value) THEN value ELSE Str(<<>>),
        !.type = IF Truthy(@) THEN @
                 ELSE IF Truthy(type) THEN type ELSE Str(<<"Error">>)]

\* addExceptionTypeValue of @sentry/utils: creates exception.values[0] and
\* fills a missing value and a missing type ("Error").
addExceptionTypeValue(event, value, type) ==
    PutFirstException(event, FillTypeValue(FirstOrEmpty(event), value, type))

\* {...under, ...over}
MergeMechanism(under, over) ==
    Mechanism(IF over.type # Undefined THEN over.type ELSE under.type,
              IF over.handled # Undefined THEN over.handled ELSE under.handled,
              IF over.synthetic # Undefined THEN over.synthetic ELSE under.synthetic)

DefaultMechanism == Mechanism(Str(<<"generic">>), Bool(TRUE), Undefined)

StampMechanism(first, new) ==
    [first EXCEPT !.mechanism =
        MergeMechanism(IF Truthy(@) THEN MergeMechanism(DefaultMechanism, @)
                       ELSE DefaultMechanism,
                       new)]

\* addExceptionMechanism of @sentry/utils: nothing without a first
\* exception; otherwise {type: "generic", handled: true} overlaid with the
\* current and then the new mechanism.
addExceptionMechanism(event, new) ==
    IF ~Truthy(FirstException(event)) THEN event
    ELSE PutFirstException(event, StampMechanism(FirstException(event), new))

---------------------------------------------------------------------------
(* The custom event filter: a function (event, url) -> boolean supplied by *)
(* the application.  Four such functions stand for it.                     *)

Fn(name) == [kind |-> "function", name |-> name]

ApplyFilter(f, event, url) ==
    CASE f.name = "acceptAll" -> TRUE
      [] f.name = "rejectAll" -> FALSE
      [] f.name = "urlHasB" -> StrIncludes(url, <<"b">>)
      [] f.name = "isTypeError" ->
            Get(FirstException(event), "type") = Str(<<"TypeError">>)

---------------------------------------------------------------------------
(* src/utils.ts: the URL filter.                                           *)

SubURLMatches(url, subURL) ==
    IF subURL.kind = "RegExp" THEN StrMatch(url, subURL)
    ELSE StrIncludes(url, subURL.str)

doesIncludeSubURLs(url, subURLs) ==
    IF Len(subURLs) = 0 THEN Null
    ELSE Bool(\E i \in 1..Len(subURLs) : SubURLMatches(url, subURLs[i]))

FilterCall(event, url) == [op |-> "customEventFilter", event |-> event, url |-> url]

\* A faulty variant: the allow list is looked at before the deny list.
shouldCaptureErrorAllowFirst(event, url, allowUrls, denyUrls, filter) ==
    IF Len(allowUrls) > 0 /\ ~Truthy(doesIncludeSubURLs(url, allowUrls))
    THEN [value |-> TRUE, effects |-> <<>>]
    ELSE IF Len(denyUrls) > 0 /\ Truthy(doesIncludeSubURLs(url, denyUrls))
    THEN [value |-> FALSE, effects |-> <<>>]
    ELSE IF Truthy(filter)
    THEN [value |-> ApplyFilter(filter, event, url),
          effects |-> <<FilterCall(event, url)>>]
    ELSE [value |-> TRUE, effects |-> <<>>]

\* A faulty variant: the custom filter is consulted before the allow list.
shouldCaptureErrorFilterFirst(event, url, allowUrls, denyUrls, filter) ==
    IF Len(denyUrls) > 0 /\ Truthy(doesIncludeSubURLs(url, denyUrls))
    THEN [value |-> FALSE, effects |-> <<>>]
    ELSE IF Truthy(filter)
    THEN [value |-> ApplyFilter(filter, event, url),
          effects |-> <<FilterCall(event, url)>>]
    ELSE [value |-> TRUE, effects |-> <<>>]

\* The result and, in order, the calls of customEventFilter it made.
shouldCaptureError(event, url, allowUrls, denyUrls, filter) ==
    IF Len(denyUrls) > 0 /\ Truthy(doesIncludeSubURLs(url, denyUrls))
    THEN [value |-> FALSE, effects |-> <<>>]
    ELSE IF Len(allowUrls) > 0 /\ ~Truthy(doesIncludeSubURLs(url, allowUrls))
    THEN [value |-> TRUE, effects |-> <<>>]
    ELSE IF Truthy(filter)
    THEN [value |-> ApplyFilter(filter, event, url),
          effects |-> <<FilterCall(event, url)>>]
    ELSE [value |-> TRUE, effects |-> <<>>]

---------------------------------------------------------------------------
(* src/utils.ts: stack frames and the Exception of a throwable.            *)
(*                                                                         *)
(* A throwable's trace text (ex.stacktrace || ex.stack || "") is held as   *)
(* the frames it encodes, oldest call first.  The stack parser is the one  *)
(* of the client options: "lines" decodes the text and skips the popSize   *)
(* most recent frames, "throwing" fails on every input, "empty" is the     *)
(* () => [] that getHubOptions substitutes while no client is bound.       *)

extractMessage(ex) ==
    LET message == IF Truthy(ex) THEN Get(ex, "message") ELSE ex
    IN  IF ~Truthy(message) THEN Str(<<"No error message">>)
        ELSE IF Truthy(Get(message, "error"))
                /\ Get(message.error, "message").kind = "string"
        THEN message.error.message
        ELSE message

\* reactMinifiedRegexp.test(ex.message).  The expression is defined in
\* ./constants; the messages it matches are those holding the token below.
reactMinifiedRegexp(message) ==
    message.kind = "string"
    /\ \E i \in 1..Len(message.str) : message.str[i] = "Minified React error #1;"

getPopSize(ex) ==
    IF Truthy(ex)
    THEN IF Get(ex, "framesToPop").kind = "number" THEN ex.framesToPop.n
         ELSE IF reactMinifiedRegexp(Get(ex, "message")) THEN 1
         ELSE 0
    ELSE 0

StackParser(parser, stacktrace, popSize) ==
    CASE parser.name = "throwing" -> Throw
      [] parser.name = "empty" -> Arr(<<>>)
      [] parser.name = "lines" ->
            Arr(SubSeq(stacktrace, 1, Len(stacktrace) - popSize))

\* try { return stackParser(...) } catch { }  return []
ParsedOrNone(parsed) == IF parsed.kind = "throw" THEN <<>> ELSE parsed.items

parseStackFrames(stackParser, ex) ==
    ParsedOrNone(StackParser(stackParser,
                             IF Truthy(Get(ex, "stack")) THEN ex.stack.items ELSE <<>>,
                             getPopSize(ex)))

\* A faulty variant: the stacktrace key is set whatever the frames.
AttachFramesAlways(exception, frames) ==
    [exception EXCEPT !.stacktrace = Stacktrace(Arr(frames))]

\* if (frames.length) exception.stacktrace = { frames }
AttachFrames(exception, frames) ==
    IF Len(frames) > 0
    THEN [exception EXCEPT !.stacktrace = Stacktrace(Arr(frames))]
    ELSE exception

UnrecoverableFallback(exception) ==
    IF exception.type = Undefined /\ exception.value = Str(<<>>)
    THEN [exception EXCEPT !.value = Str(<<"Unrecoverable error caught">>)]
    ELSE exception

exceptionFromError(stackParser, ex) ==
    UnrecoverableFallback(
        AttachFrames(Exception(IF Truthy(ex) THEN Get(ex, "name") ELSE ex,
                               extractMessage(ex), Undefined, Undefined),
                     parseStackFrames(stackParser, ex)))

StringEvent(input, frames) ==
    Event(IF Len(frames) > 0
          THEN Exceptions(Arr(<<Exception(Undefined, input,
                                          Stacktrace(Arr(frames)), Undefined)>>))
          ELSE Undefined,
          input, Undefined, Undefined, Undefined)

eventFromString(stackParser, input, syntheticException, attachStacktrace) ==
    StringEvent(input,
                IF Truthy(attachStacktrace) /\ Truthy(syntheticException)
                THEN parseStackFrames(stackParser, syntheticException)
                ELSE <<>>)

eventFromError(stackParser, ex) ==
    Event(Exceptions(Arr(<<exceptionFromError(stackParser, ex)>>)),
          Undefined, Undefined, Undefined, Undefined)

\* Object.keys(...).sort() joined, of @sentry/utils.
KeyOrder == <<"bar", "currentTarget", "detail", "foo", "reason", "target", "type">>

extractExceptionKeysForMessage(exception) ==
    LET keys == Get(exception, "keys")
        has(k) == keys.kind = "array" /\ \E i \in 1..Len(keys.items) : keys.items[i] = k
        sorted == SelectSeq(KeyOrder, has)
    IN  IF Len(sorted) = 0 THEN <<"[object has no keys]">> ELSE sorted

PlainObjectException(exception, isUnhandledRejection) ==
    Exception(IF isEvent(exception) THEN Str(<<exception.kind>>)
              ELSE IF isUnhandledRejection THEN Str(<<"UnhandledRejection">>)
              ELSE Str(<<"Error">>),
              Str(<<IF isUnhandledRejection
                    THEN "Non-Error promise rejection captured with keys: "
                    ELSE "Non-Error exception captured with keys: ">>
                  \o extractExceptionKeysForMessage(exception)),
              Undefined, Undefined)

PlainObjectEvent(exception, isUnhandledRejection, frames) ==
    Event(Exceptions(Arr(<<AttachFrames(
                               PlainObjectException(exception, isUnhandledRejection),
                               frames)>>)),
          Undefined, [kind |-> "object", __serialized__ |-> exception],
          Undefined, Undefined)

\* A TypeError when hub is undefined (hub.getClient()).
eventFromPlainObject(aHub, stackParser, exception, syntheticException, isUnhandledRejection) ==
    IF aHub.kind \in {"undefined", "null"} THEN Throw
    ELSE PlainObjectEvent(exception, isUnhandledRejection,
                          IF Truthy(syntheticException)
                          THEN parseStackFrames(stackParser, syntheticException)
                          ELSE <<>>)

DOMExceptionMessage(exception) ==
    LET name == IF Truthy(Get(exception, "name")) THEN exception.name
                ELSE IF isDOMError(exception) THEN Str(<<"DOMError">>)
                ELSE Str(<<"DOMException">>)
    IN  IF Truthy(Get(exception, "message"))
        THEN Str(ToStr(name) \o <<": ">> \o ToStr(exception.message))
        ELSE name

StringEventWithTypeValue(stackParser, message, syntheticException, attachStacktrace) ==
    addExceptionTypeValue(
        eventFromString(stackParser, message, syntheticException, attachStacktrace),
        message, Undefined)

WithCodeTag(exception, event) ==
    IF "code" \in DOMAIN exception
    THEN [event EXCEPT !.tags =
             [kind |-> "object", DOMExceptionCode |-> Str(ToStr(exception.code))]]
    ELSE event

eventFromDOMException(stackParser, exception, syntheticException, attachStacktrace) ==
    WithCodeTag(exception,
                IF "stack" \in DOMAIN exception
                THEN eventFromError(stackParser, exception)
                ELSE StringEventWithTypeValue(stackParser,
                                              DOMExceptionMessage(exception),
                                              syntheticException, attachStacktrace))

\* addExceptionMechanism(event, { synthetic: true }) on what was built.
MarkSynthetic(event) ==
    IF event.kind = "throw" THEN Throw
    ELSE addExceptionMechanism(event, Mechanism(Undefined, Undefined, Bool(TRUE)))

\* `${exception}`: a TypeError on a symbol.
TemplateLiteral(exception) ==
    IF exception.kind = "symbol" THEN Throw ELSE Str(ToStr(exception))

SimpleMessageEvent(event, text) ==
    IF text.kind = "throw" THEN Throw
    ELSE addExceptionTypeValue(event, text, Undefined)

\* The event, or Throw where the code raises.
eventFromUnknownInput(aHub, stackParser, exception, syntheticException, attachStacktrace, isUnhandledRejection) ==
    IF isErrorEvent(exception) /\ Truthy(Get(exception, "error"))
    THEN eventFromError(stackParser, exception.error)
    ELSE IF isDOMError(exception) \/ isDOMException(exception)
    THEN eventFromDOMException(stackParser, exception,
                               syntheticException, attachStacktrace)
    ELSE IF isError(exception)
    THEN eventFromError(stackParser, exception)
    ELSE IF isPlainObject(exception) \/ isEvent(exception)
    THEN MarkSynthetic(eventFromPlainObject(aHub, stackParser, exception,
                                            syntheticException, isUnhandledRejection))
    ELSE MarkSynthetic(
             SimpleMessageEvent(eventFromString(stackParser, exception,
                                                syntheticException, attachStacktrace),
                                TemplateLiteral(exception)))

---------------------------------------------------------------------------
(* src/utils.ts: the source URL of an event.                               *)

Anonymous == Str(<<"<anonymous>">>)
NativeCode == Str(<<"[native code]">>)

\* The indices the backward loop may stop at.
ValidFrames(items) ==
    {i \in 1..Len(items) :
        /\ Truthy(items[i])
        /\ Get(items[i], "filename") # Anonymous
        /\ Get(items[i], "filename") # NativeCode}

\* A faulty variant: the scan runs from the first frame forward.
FirstValidUrlOf(items, valid) ==
    IF valid = {} THEN Null
    ELSE LET first == CHOOSE i \in valid : \A j \in valid : i <= j
         IN  IF Truthy(Get(items[first], "filename")) THEN items[first].filename
             ELSE Null

\* return frame.filename || null  at the first index the loop stops at.
LastValidUrlOf(items, valid) ==
    IF valid = {} THEN Null
    ELSE LET last == CHOOSE i \in valid : \A j \in valid : j <= i
         IN  IF Truthy(Get(items[last], "filename")) THEN items[last].filename
             ELSE Null

\* frames is Undefined (the default [] applies), Null or an array.
getLastValidUrl(frames) ==
    IF frames.kind # "array" THEN Null
    ELSE LastValidUrlOf(frames.items, ValidFrames(frames.items))

\* event.exception.values[0].stacktrace.frames; a TypeError on the way is
\* caught and leaves frames undefined.
getEventFilterUrl(event) ==
    getLastValidUrl(
        Caught(Member(Member(First(Member(Member(event, "exception"), "values")),
                             "stacktrace"),
                      "frames")))

CaptureEvent(event, hint) == [op |-> "captureEvent", event |-> event, hint |-> hint]

\* The effects, in order, and whether the call returned or threw
\* (hub.captureEvent on an undefined hub is a TypeError).
addMechanismAndCapture(aHub, error, event, type) ==
    IF aHub.kind \in {"undefined", "null"}
    THEN [effects |-> <<>>, outcome |-> "threw"]
    ELSE [effects |-> <<CaptureEvent(
                          addExceptionMechanism(event,
                              Mechanism(Str(<<type>>), Bool(FALSE), Undefined)),
                          [originalException |-> error])>>,
          outcome |-> "returned"]

---------------------------------------------------------------------------
(* src/utils.ts: the legacy onerror arguments.                             *)

Digits == {"1", "5"}

\* isNaN(parseInt(v, 10)): parseInt reads the leading digits of String(v).
parseIntIsNaN(v) ==
    ~ \/ v.kind = "number"
      \/ v.kind = "string" /\ Len(v.str) > 0 /\ v.str[1] \in Digits

\* getLocationHref() of @sentry/utils: the document's location.
LocationHref == Str(<<"h">>)

InitialFrame(url, line, column) ==
    Frame(IF isString(url) /\ Len(url.str) > 0 THEN url ELSE LocationHref,
          Str(<<"?">>),
          IF parseIntIsNaN(line) THEN Undefined ELSE line,
          IF parseIntIsNaN(column) THEN Undefined ELSE column)

\* ev0.stacktrace.frames, empty where a step of the path is falsy.
FramesOf(first) ==
    IF Truthy(Get(first, "stacktrace")) /\ Truthy(Get(first.stacktrace, "frames"))
    THEN first.stacktrace.frames.items
    ELSE <<>>

\* A faulty variant: the frame is pushed whatever the list holds.
PushAlways(first, frame) ==
    [first EXCEPT !.stacktrace = Stacktrace(Arr(Append(FramesOf(first), frame)))]

\* if (ev0sf.length === 0) ev0sf.push(frame)
PushIfEmpty(first, frame) ==
    [first EXCEPT !.stacktrace =
        Stacktrace(Arr(IF Len(FramesOf(first)) = 0 THEN <<frame>>
                       ELSE FramesOf(first)))]

enhanceEventWithInitialFrame(event, url, line, column) ==
    PutFirstException(event,
                      PushIfEmpty(FirstOrEmpty(event), InitialFrame(url, line, column)))

UncaughtWords == {"Uncaught ", "uncaught ", "UNCAUGHT "}
ExceptionWords == {"exception: ", "Exception: "}
ErrorTypeWords ==
    {"EvalError", "InternalError", "RangeError", "ReferenceError", "SyntaxError",
     "TypeError", "URIError", "Error", "typeerror"}
LineTerminators == {"\n"}

\* message.match(ERROR_TYPES_RE): Null, or the groups [1] and [2].  The
\* expression is anchored at both ends, case-insensitive, and "." matches
\* no line terminator.
ERROR_TYPES_RE(m) ==
    LET p1 == IF Len(m) >= 1 /\ m[1] \in UncaughtWords
              THEN (IF Len(m) >= 2 /\ m[2] \in ExceptionWords THEN 2 ELSE 1)
              ELSE 0
        typed == Len(m) >= p1 + 2 /\ m[p1 + 1] \in ErrorTypeWords /\ m[p1 + 2] = ": "
        p2 == IF typed THEN p1 + 2 ELSE p1
    IN  IF \E i \in 1..Len(m) : m[i] \in LineTerminators THEN Null
        ELSE [kind |-> "match",
              g1 |-> IF typed THEN Str(<<m[p1 + 1]>>) ELSE Undefined,
              g2 |-> Str(SubSeq(m, p2 + 1, Len(m)))]

\* message.match(...): a TypeError when message is no string.
MatchGroups(message) ==
    IF isString(message) THEN ERROR_TYPES_RE(message.str) ELSE Throw

\* let name = 'Error'; if (groups) { name = groups[1]; message = groups[2] }
IncompleteException(message, groups) ==
    Exception(IF Truthy(groups) THEN groups.g1 ELSE Str(<<"Error">>),
              IF Truthy(groups) THEN groups.g2 ELSE message,
              Undefined, Undefined)

IncompleteEvent(message, groups, url, line, column) ==
    IF groups.kind = "throw" THEN Throw
    ELSE enhanceEventWithInitialFrame(
             Event(Exceptions(Arr(<<IncompleteException(message, groups)>>)),
                   Undefined, Undefined, Undefined, Undefined),
             url, line, column)

OnErrorMessage(msg) == IF isErrorEvent(msg) THEN Get(msg, "message") ELSE msg

\* The event, or Throw when message is no string.
eventFromIncompleteOnError(msg, url, line, column) ==
    IncompleteEvent(OnErrorMessage(msg), MatchGroups(OnErrorMessage(msg)),
                    url, line, column)

---------------------------------------------------------------------------
(* MFESentry: the static reporting context and its two global handlers.    *)
(* A handler call is one step; "call" records the last call of an entry    *)
(* point: its input, the effects it had on its collaborators in order      *)
(* (customEventFilter, e.stopImmediatePropagation, hub.captureEvent) and   *)
(* whether it returned or threw.                                           *)

BrowserClient(options) == [kind |-> "BrowserClient", options |-> options]
Hub(aClient) == [kind |-> "Hub", client |-> aClient]

Options(stackParser, attachStacktrace, allowUrls, denyUrls) ==
    [kind |-> "object", stackParser |-> stackParser,
     attachStacktrace |-> attachStacktrace,
     allowUrls |-> allowUrls, denyUrls |-> denyUrls]

getHubOptions ==
    LET options == IF Truthy(client) THEN client.options
                   ELSE Options(Fn("empty"), Bool(FALSE), Arr(<<>>), Arr(<<>>))
    IN  [stackParser |-> options.stackParser,
         attachStacktrace |-> options.attachStacktrace,
         allowUrls |-> IF options.allowUrls.kind \in {"undefined", "null"}
                       THEN Arr(<<>>) ELSE options.allowUrls,
         denyUrls |-> IF options.denyUrls.kind \in {"undefined", "null"}
                      THEN Arr(<<>>) ELSE options.denyUrls]

eventFromRejectionWithPrimitive(reason) ==
    Event(Exceptions(Arr(<<Exception(
              Str(<<"UnhandledRejection">>),
              Str(<<"Non-Error promise rejection captured with value: ">>
                  \o ToStr(reason)),
              Undefined, Undefined)>>)),
          Undefined, Undefined, Undefined, Undefined)

\* The rejection dug out of e: "x in e" on a primitive is a TypeError,
\* which the handler catches, keeping e itself.
UnwrapReason(e) ==
    IF isPrimitive(e) THEN e
    ELSE IF "reason" \in DOMAIN e THEN e.reason
    ELSE IF "detail" \in DOMAIN e /\ ~isPrimitive(e.detail)
            /\ "reason" \in DOMAIN e.detail
    THEN e.detail.reason
    ELSE e

\* A faulty variant: the marker is not looked at.
OwnRequestIgnored(error) == FALSE

OwnRequest(error) == Truthy(error) /\ Truthy(Get(error, "__sentry_own_request__"))

Returned(effects, ret) == [effects |-> effects, outcome |-> "returned", ret |-> ret]
Threw(effects) == [effects |-> effects, outcome |-> "threw", ret |-> Undefined]

Finish(before, capture) ==
    IF capture.outcome = "threw" THEN Threw(before)
    ELSE Returned(before \o capture.effects, Undefined)

StopCalls(e) ==
    IF Get(e, "stopImmediatePropagation").kind = "function"
    THEN <<[op |-> "stopImmediatePropagation"]>>
    ELSE <<>>

\* event.level = 'error'
LevelError(event) ==
    IF event.kind = "throw" THEN Throw
    ELSE [event EXCEPT !.level = Str(<<"error">>)]

\* A faulty variant: the event is forwarded before propagation is stopped.
ForwardThenStop(e, error, event, before) ==
    Finish(before,
           [effects |-> addMechanismAndCapture(hub, error, event,
                                               "onunhandledrejection").effects
                        \o StopCalls(e),
            outcome |-> "returned"])

\* e.stopImmediatePropagation() and then addMechanismAndCapture.
ForwardRejection(e, error, event, before) ==
    Finish(before \o StopCalls(e),
           addMechanismAndCapture(hub, error, event, "onunhandledrejection"))

\* A faulty variant: the application entry file is not looked at.
FilterRejectionAnyFile(e, error, event, eventFilterURL) ==
    IF ~Truthy(eventFilterURL) THEN Returned(<<>>, Undefined)
    ELSE IF ~Truthy(customEventFilter)
    THEN ForwardRejection(e, error, event, <<>>)
    ELSE IF ~ApplyFilter(customEventFilter, event, eventFilterURL.str)
    THEN Returned(<<FilterCall(event, eventFilterURL.str)>>, Undefined)
    ELSE ForwardRejection(e, error, event,
                          <<FilterCall(event, eventFilterURL.str)>>)

\* if (eventFilterURL) { appJSFile; customEventFilter; stop; capture }
FilterRejection(e, error, event, eventFilterURL) ==
    IF ~Truthy(eventFilterURL) THEN Returned(<<>>, Undefined)
    ELSE IF Truthy(appJSFile) /\ ~StrIncludes(eventFilterURL.str, appJSFile.str)
    THEN Returned(<<>>, Undefined)
    ELSE IF ~Truthy(customEventFilter)
    THEN ForwardRejection(e, error, event, <<>>)
    ELSE IF ~ApplyFilter(customEventFilter, event, eventFilterURL.str)
    THEN Returned(<<FilterCall(event, eventFilterURL.str)>>, Undefined)
    ELSE ForwardRejection(e, error, event,
                          <<FilterCall(event, eventFilterURL.str)>>)

LocateRejection(e, error, event) ==
    IF event.kind = "throw" THEN Threw(<<>>)
    ELSE FilterRejection(e, error, event, getEventFilterUrl(event))

ClassifyRejection(error) ==
    IF isPrimitive(error) THEN eventFromRejectionWithPrimitive(error)
    ELSE eventFromUnknownInput(hub, getHubOptions.stackParser, error, Undefined,
                               getHubOptions.attachStacktrace, TRUE)

RejectionOf(e, error) ==
    IF OwnRequest(error) THEN Returned(<<>>, Bool(TRUE))
    ELSE LocateRejection(e, error, LevelError(ClassifyRejection(error)))

handleUnhandledRejection(e) == RejectionOf(e, UnwrapReason(e))

EnhanceUnknown(event, url, line, column) ==
    IF event.kind = "throw" THEN Throw
    ELSE enhanceEventWithInitialFrame(event, url, line, column)

ClassifyOnError(data) ==
    IF data.error = Undefined /\ isString(data.message)
    THEN eventFromIncompleteOnError(data.message, data.filename,
                                    data.lineno, data.colno)
    ELSE EnhanceUnknown(
             eventFromUnknownInput(hub, getHubOptions.stackParser,
                 IF Truthy(data.error) THEN data.error ELSE data.message,
                 Undefined, getHubOptions.attachStacktrace, FALSE),
             data.filename, data.lineno, data.colno)

ForwardOnError(data, before, event) ==
    IF event.kind = "throw" THEN Threw(before)
    ELSE Finish(before, addMechanismAndCapture(hub, data.error, event, "onerror"))

GateOnError(data, gate) ==
    IF ~gate.value \/ OwnRequest(data.error)
    THEN Returned(gate.effects, Undefined)
    ELSE ForwardOnError(data, gate.effects, LevelError(ClassifyOnError(data)))

handleOnError(data) ==
    GateOnError(data,
                shouldCaptureError(data.error, data.filename.str,
                                   getHubOptions.allowUrls.items,
                                   getHubOptions.denyUrls.items, Undefined))

\* hub.run((currentHub) => currentHub.<op>(...)): the call made on the hub.
HubCall(op, args) == [op |-> op, args |-> args]

\* src/utils.ts: 'name' in error is a TypeError when error is a primitive.
isNetworkError(error) ==
    IF error.kind = "AxiosError" THEN Bool(TRUE)
    ELSE IF isPrimitive(error) THEN Throw
    ELSE Bool(Get(error, "name") = Str(<<"NetworkError">>))

CaptureUnlessNetwork(error, hint, network) ==
    IF network.kind = "throw" THEN Threw(<<>>)
    ELSE IF network.b THEN Returned(<<>>, Undefined)
    ELSE Returned(<<HubCall("captureException", [error |-> error, hint |-> hint])>>,
                  Undefined)

captureExecption(error, hint, forceSendingNetworkError) ==
    IF ~Truthy(hub) THEN Returned(<<>>, Undefined)
    ELSE IF Truthy(forceSendingNetworkError)
    THEN Returned(<<HubCall("captureException", [error |-> error, hint |-> hint])>>,
                  Undefined)
    ELSE CaptureUnlessNetwork(error, hint, isNetworkError(error))

captureEvent(error, hint) ==
    IF Truthy(hub)
    THEN Returned(<<HubCall("captureEvent", [error |-> error, hint |-> hint])>>,
                  Undefined)
    ELSE Returned(<<>>, Undefined)

captureMessage(error, severity, hint) ==
    IF Truthy(hub)
    THEN Returned(<<HubCall("captureMessage",
                            [error |-> error, severity |-> severity, hint |-> hint])>>,
                  Undefined)
    ELSE Returned(<<>>, Undefined)

setUser(user) ==
    IF Truthy(hub) THEN Returned(<<HubCall("setUser", [user |-> user])>>, Undefined)
    ELSE Returned(<<>>, Undefined)

setExtras(extras) ==
    IF Truthy(hub)
    THEN Returned(<<HubCall("setExtras", [extras |-> extras])>>, Undefined)
    ELSE Returned(<<>>, Undefined)

---------------------------------------------------------------------------
(* The values the environment hands to the entry points.                   *)

A == Str(<<"a">>)
B == Str(<<"b">>)
AB == Str(<<"a", "b">>)

ParsedFrame(filename) == Frame(filename, Str(<<"f">>), Num(1), Num(1))

ErrorObject(name, message, stack, own) ==
    [kind |-> "Error", name |-> name, message |-> message, stack |-> Arr(stack),
     __sentry_own_request__ |-> Bool(own)]

PlainObject(keys, own) ==
    [kind |-> "Object", keys |-> Arr(keys), __sentry_own_request__ |-> Bool(own)]

DOMExceptionWithStack(stack) ==
    [kind |-> "DOMException", name |-> Str(<<"AbortError">>),
     message |-> Str(<<"aborted">>), stack |-> Arr(stack), code |-> Num(12)]

DOMExceptionNoStack ==
    [kind |-> "DOMException", name |-> Str(<<>>), message |-> Str(<<"aborted">>),
     code |-> Num(12)]

ErrorEventOf(message, error) ==
    [kind |-> "ErrorEvent", message |-> message, error |-> error,
     keys |-> Arr(<<"type", "target", "currentTarget">>)]

PromiseRejectionEvent(reason, stop) ==
    [kind |-> "PromiseRejectionEvent", reason |-> reason,
     stopImmediatePropagation |-> stop,
     keys |-> Arr(<<"type", "target", "currentTarget", "reason">>)]

CustomEvent(detail, stop) ==
    [kind |-> "CustomEvent", detail |-> detail,
     stopImmediatePropagation |-> stop,
     keys |-> Arr(<<"type", "target", "currentTarget", "detail">>)]

Boom == Str(<<"boom">>)

\* The traces of the throwables the handlers are given.
Stacks ==
    {<<>>,
     <<ParsedFrame(A)>>, <<ParsedFrame(B)>>, <<ParsedFrame(AB)>>,
     <<ParsedFrame(Anonymous)>>, <<ParsedFrame(Undefined)>>,
     <<ParsedFrame(AB), ParsedFrame(NativeCode)>>,
     <<ParsedFrame(B), ParsedFrame(A)>>,
     <<ParsedFrame(Anonymous), ParsedFrame(NativeCode)>>}

Reasons ==
    {ErrorObject(Str(<<"TypeError">>), Boom, st, FALSE) : st \in Stacks}
    \cup {ErrorObject(Str(<<"TypeError">>), Boom, st, TRUE) :
             st \in {<<>>, <<ParsedFrame(AB)>>}}
    \cup {ErrorEventOf(Boom, ErrorObject(Str(<<"Error">>), Boom, <<ParsedFrame(AB)>>, FALSE)),
          ErrorEventOf(Boom, Undefined),
          DOMExceptionWithStack(<<ParsedFrame(AB)>>), DOMExceptionNoStack,
          Str(<<"oops">>), Str(<<>>), Symbol, Null, Undefined, Num(0),
          PlainObject(<<"foo", "bar">>, FALSE), PlainObject(<<>>, TRUE),
          Arr(<<1, 2>>)}

\* The platform events (and bare values) the rejection handler is given.
FewReasons ==
    {ErrorObject(Str(<<"TypeError">>), Boom, <<ParsedFrame(AB)>>, FALSE),
     ErrorObject(Str(<<"TypeError">>), Boom, <<ParsedFrame(AB)>>, TRUE),
     Str(<<"oops">>)}

RejectionInputs ==
    {PromiseRejectionEvent(r, Fn("stop")) : r \in Reasons}
    \cup {PromiseRejectionEvent(r, Undefined) : r \in FewReasons}
    \cup {CustomEvent([kind |-> "Object", reason |-> r], Fn("stop")) : r \in FewReasons}
    \cup {CustomEvent(Null, Fn("stop"))}
    \cup FewReasons \cup {Null, Undefined}

OnErrorMessages ==
    {Str(<<"Uncaught ", "TypeError", ": ", "x is not a function">>),
     Str(<<>>), Undefined}

OnErrorErrors ==
    {Undefined, Null, Symbol, Str(<<"oops">>),
     ErrorObject(Str(<<"TypeError">>), Boom, <<ParsedFrame(AB)>>, FALSE),
     ErrorObject(Str(<<"TypeError">>), Boom, <<ParsedFrame(AB)>>, TRUE),
     PlainObject(<<"foo", "bar">>, FALSE), DOMExceptionNoStack}

OnErrorInputs ==
    {[kind |-> "ErrorEvent", message |-> m, filename |-> u, lineno |-> Num(10),
      colno |-> Num(5), error |-> err] :
        m \in OnErrorMessages, u \in {Str(<<>>), A, B}, err \in OnErrorErrors}

\* What application code hands to captureExecption.
CapturedErrors ==
    {ErrorObject(Str(<<"TypeError">>), Boom, <<ParsedFrame(AB)>>, FALSE),
     ErrorObject(Str(<<"NetworkError">>), Boom, <<>>, FALSE),
     [kind |-> "AxiosError"], Str(<<"oops">>), Undefined}

Users == {Null, [kind |-> "Object", id |-> Str(<<"u">>)]}

ExtrasValues == {[kind |-> "Object", foo |-> Num(1)]}

\* new BrowserClient(options): the options an application passes.
ClientOptions ==
    {Options(Fn("lines"), Bool(FALSE), allow, deny) :
        allow \in {Undefined, Arr(<<A>>)},
        deny \in {Undefined, Arr(<<A>>), Arr(<<RegExp(TRUE, <<"b">>, FALSE)>>)}}
    \cup {Options(Fn("throwing"), Bool(TRUE), Arr(<<>>), Arr(<<>>))}

AppJSFiles == {Undefined, A}

CustomEventFilters == {Undefined, Fn("rejectAll"), Fn("urlHasB")}

---------------------------------------------------------------------------
(* The reporting context as a state machine.                               *)

NoCall == [op |-> "none"]

Init ==
    /\ hub = Undefined
    /\ client = Undefined
    /\ appJSFile = Undefined
    /\ customEventFilter = Undefined
    /\ call = NoCall

setClientAndHub(aHub, aClient) ==
    /\ hub' = aHub
    /\ client' = aClient

createClient(options, file, filter) ==
    /\ setClientAndHub(Hub(BrowserClient(options)), BrowserClient(options))
    /\ appJSFile' = file
    /\ customEventFilter' = filter
    /\ call' = [op |-> "createClient"]

CreateClient ==
    \E options \in ClientOptions, file \in AppJSFiles, filter \in CustomEventFilters :
        createClient(options, file, filter)

SetClientAndHub ==
    \E options \in ClientOptions :
        /\ setClientAndHub(Hub(BrowserClient(options)), BrowserClient(options))
        /\ call' = [op |-> "setClientAndHub"]
        /\ UNCHANGED <<appJSFile, customEventFilter>>

HandleUnhandledRejection ==
    \E e \in RejectionInputs :
        /\ call' = [op |-> "handleUnhandledRejection", input |-> e,
                    result |-> handleUnhandledRejection(e)]
        /\ UNCHANGED <<hub, client, appJSFile, customEventFilter>>

HandleOnError ==
    \E data \in OnErrorInputs :
        /\ call' = [op |-> "handleOnError", input |-> data,
                    result |-> handleOnError(data)]
        /\ UNCHANGED <<hub, client, appJSFile, customEventFilter>>

CaptureExecption ==
    \E error \in CapturedErrors, force \in {Undefined, Bool(TRUE)} :
        /\ call' = [op |-> "captureExecption",
                    input |-> [error |-> error, force |-> force],
                    result |-> captureExecption(error, Undefined, force)]
        /\ UNCHANGED <<hub, client, appJSFile, customEventFilter>>

\* MFESentry.captureEvent (CaptureEvent above is the call on the hub).
CaptureEventEntry ==
    \E error \in {ErrorObject(Str(<<"TypeError">>), Boom, <<>>, FALSE)} :
        /\ call' = [op |-> "captureEvent", input |-> error,
                    result |-> captureEvent(error, Undefined)]
        /\ UNCHANGED <<hub, client, appJSFile, customEventFilter>>

CaptureMessage ==
    \E error \in {Boom, Str(<<>>)} :
        /\ call' = [op |-> "captureMessage", input |-> error,
                    result |-> captureMessage(error, Str(<<"warning">>), Undefined)]
        /\ UNCHANGED <<hub, client, appJSFile, customEventFilter>>

SetUser ==
    \E user \in Users :
        /\ call' = [op |-> "setUser", input |-> user, result |-> setUser(user)]
        /\ UNCHANGED <<hub, client, appJSFile, customEventFilter>>

SetExtras ==
    \E extras \in ExtrasValues :
        /\ call' = [op |-> "setExtras", input |-> extras,
                    result |-> setExtras(extras)]
        /\ UNCHANGED <<hub, client, appJSFile, customEventFilter>>

Next ==
    \/ CreateClient
    \/ SetClientAndHub
    \/ HandleUnhandledRejection
    \/ HandleOnError
    \/ CaptureExecption
    \/ CaptureEventEntry
    \/ CaptureMessage
    \/ SetUser
    \/ SetExtras

Spec == Init /\ [][Next]_vars

---------------------------------------------------------------------------
(* The functions of src/utils.ts on their own: the initial state holds one *)
(* pending call, drawn from the bounded argument sets, and the function's  *)
(* step applies it.                                                        *)

Urls == SeqsUpTo({"a", "b"}, MaxUrlLen)

SubURLs == {A, RegExp(FALSE, <<"b", ".">>, TRUE)}

UrlLists == SeqsUpTo(SubURLs, MaxListLen)

Filters ==
    {Undefined, Fn("acceptAll"), Fn("rejectAll"), Fn("urlHasB"), Fn("isTypeError")}

ErrorEvents ==
    {Event(Exceptions(Arr(<<Exception(Str(<<t>>), Boom, Undefined, Undefined)>>)),
           Undefined, Undefined, Undefined, Undefined) :
        t \in {"TypeError", "RangeError"}}

MsgTokens ==
    {"Uncaught ", "exception: ", "TypeError", "Error", ": ",
     "x is not a function", "\n"}

Messages == {Str(m) : m \in SeqsUpTo(MsgTokens, MaxMsgLen)}

\* The (url, line, column) of an onerror report.
Positions ==
    {[url |-> A, line |-> Num(10), column |-> Num(5)],
     [url |-> Str(<<>>), line |-> Undefined, column |-> Str(<<"x">>)],
     [url |-> Undefined, line |-> Str(<<"1", "5">>), column |-> NaN]}

FrameLists == SeqsUpTo({ParsedFrame(A), ParsedFrame(Anonymous)}, MaxFrames)

EventOf(values) ==
    Event(Exceptions(values), Undefined, Undefined, Undefined, Undefined)

\* Events at every stage of completeness of exception.values[0].stacktrace.frames.
PartialEvents ==
    {Event(Undefined, Boom, Undefined, Undefined, Undefined),
     EventOf(Undefined), EventOf(Arr(<<>>)),
     EventOf(Arr(<<Exception(Str(<<"TypeError">>), Boom, Undefined, Undefined)>>)),
     EventOf(Arr(<<Exception(Str(<<"TypeError">>), Boom, Stacktrace(Undefined),
                             Undefined)>>))}
    \cup {EventOf(Arr(<<Exception(Str(<<"TypeError">>), Boom, Stacktrace(Arr(fs)),
                                  Undefined)>>)) : fs \in FrameLists}
    \cup {EventOf(Arr(<<Exception(Str(<<"TypeError">>), Boom, Undefined, Undefined),
                        Exception(Str(<<"Error">>), Boom, Stacktrace(Arr(fs)),
                                  Undefined)>>)) : fs \in FrameLists}

NestedMessage(inner) ==
    [kind |-> "Object", error |-> [kind |-> "Error", message |-> inner]]

ThrowableMessages ==
    {Undefined, Str(<<>>), Boom, Str(<<"Minified React error #1;">>),
     NestedMessage(Str(<<"inner">>)), NestedMessage(Str(<<>>)),
     NestedMessage(Num(1))}

Throwables ==
    {[kind |-> "Error", name |-> name, message |-> message, stack |-> Arr(stack),
      framesToPop |-> pop] :
        name \in {Undefined, Str(<<"TypeError">>)}, message \in ThrowableMessages,
        stack \in FrameLists, pop \in {Undefined, Num(1)}}

StackParsers == {Fn("lines"), Fn("throwing"), Fn("empty")}

Primitives == {Undefined, Null, Str(<<>>), Str(<<"oops">>), Num(0), Symbol}

\* The entries a frame list may hold: frames with a source URL, with a
\* marker, with an empty or no filename, and a hole.
FrameEntries ==
    {ParsedFrame(A), ParsedFrame(B), ParsedFrame(Anonymous), ParsedFrame(NativeCode),
     ParsedFrame(Str(<<>>)), ParsedFrame(Undefined), Null}

\* Events along the whole path exception / values / [0] / stacktrace /
\* frames, and no event at all.
LocatedEvents ==
    PartialEvents \cup {Undefined, Null}
    \cup {EventOf(Arr(<<Exception(Str(<<"TypeError">>), Boom, Stacktrace(Arr(fs)),
                                  Undefined)>>)) :
             fs \in SeqsUpTo(FrameEntries, MaxFrames)}
    \cup {EventOf(Arr(<<Exception(Str(<<"TypeError">>), Boom, Stacktrace(Null),
                                  Undefined)>>))}

Pending(op, args) == [op |-> op, state |-> "pending", args |-> args]

PendingCalls ==
    {Pending("shouldCaptureError",
             [event |-> ev, url |-> u, allowUrls |-> al, denyUrls |-> dl, filter |-> f]) :
        ev \in ErrorEvents, u \in Urls, al \in UrlLists, dl \in UrlLists, f \in Filters}
    \cup {Pending("eventFromIncompleteOnError", [msg |-> m, at |-> pos]) :
             m \in Messages, pos \in Positions}
    \cup {Pending("enhanceEventWithInitialFrame", [event |-> ev, at |-> pos]) :
             ev \in PartialEvents, pos \in Positions}
    \cup {Pending(op, [stackParser |-> sp, ex |-> ex]) :
             op \in {"parseStackFrames", "exceptionFromError"},
             sp \in StackParsers, ex \in Throwables}
    \cup {Pending("eventFromUnknownInput",
                  [hub |-> h, stackParser |-> sp, exception |-> r, unhandled |-> ur]) :
             h \in {Undefined, Hub(Undefined)}, sp \in {Fn("lines"), Fn("throwing")},
             r \in Reasons, ur \in BOOLEAN}
    \cup {Pending("getEventFilterUrl", [event |-> ev]) : ev \in LocatedEvents}
    \cup {Pending("eventFromRejectionWithPrimitive", [reason |-> r]) : r \in Primitives}

InitUtils ==
    /\ hub = Undefined
    /\ client = Undefined
    /\ appJSFile = Undefined
    /\ customEventFilter = Undefined
    /\ call \in PendingCalls

\* The pending call of op returns ret.
Apply(op, ret) ==
    /\ call.op = op
    /\ call.state = "pending"
    /\ call' = [op |-> op, state |-> "done", args |-> call.args, ret |-> ret]
    /\ UNCHANGED <<hub, client, appJSFile, customEventFilter>>

ShouldCaptureError ==
    Apply("shouldCaptureError",
          shouldCaptureError(call.args.event, call.args.url, call.args.allowUrls,
                             call.args.denyUrls, call.args.filter))

EventFromIncompleteOnError ==
    Apply("eventFromIncompleteOnError",
          eventFromIncompleteOnError(call.args.msg, call.args.at.url,
                                     call.args.at.line, call.args.at.column))

EnhanceEventWithInitialFrame ==
    Apply("enhanceEventWithInitialFrame",
          enhanceEventWithInitialFrame(call.args.event, call.args.at.url,
                                       call.args.at.line, call.args.at.column))

\* The same call again, on the event the first call returned.
EnhanceAgain ==
    /\ call.op = "enhanceEventWithInitialFrame"
    /\ call.state = "done"
    /\ call' = [op |-> call.op, state |-> "twice", args |-> call.args,
                ret |-> call.ret,
                again |-> enhanceEventWithInitialFrame(call.ret, call.args.at.url,
                              call.args.at.line, call.args.at.column)]
    /\ UNCHANGED <<hub, client, appJSFile, customEventFilter>>

ParseStackFrames ==
    Apply("parseStackFrames", parseStackFrames(call.args.stackParser, call.args.ex))

ExceptionFromError ==
    Apply("exceptionFromError", exceptionFromError(call.args.stackParser, call.args.ex))

EventFromUnknownInput ==
    Apply("eventFromUnknownInput",
          eventFromUnknownInput(call.args.hub, call.args.stackParser,
                                call.args.exception, Undefined, Bool(FALSE),
                                call.args.unhandled))

GetEventFilterUrl ==
    Apply("getEventFilterUrl", getEventFilterUrl(call.args.event))

EventFromRejectionWithPrimitive ==
    Apply("eventFromRejectionWithPrimitive",
          eventFromRejectionWithPrimitive(call.args.reason))

NextUtils ==
    \/ ShouldCaptureError
    \/ EventFromIncompleteOnError
    \/ EnhanceEventWithInitialFrame
    \/ EnhanceAgain
    \/ ParseStackFrames
    \/ ExceptionFromError
    \/ EventFromUnknownInput
    \/ GetEventFilterUrl
    \/ EventFromRejectionWithPrimitive

SpecUtils == InitUtils /\ [][NextUtils]_vars

---------------------------------------------------------------------------
(* Properties of shouldCaptureError (under SpecUtils).                     *)

Done(op) == call.op = op /\ call.state \in {"done", "twice"}

\* Some entry of the list matches url: a string entry by containment, a
\* RegExp entry by pattern match.
SomeEntryMatches(url, subURLs) ==
    \E i \in 1..Len(subURLs) :
        IF subURLs[i].kind = "RegExp" THEN StrMatch(url, subURLs[i])
        ELSE StrIncludes(url, subURLs[i].str)

\* C1: whenever at least one entry of denyUrls matches url,
\* shouldCaptureError returns false, whatever allowUrls holds and whatever
\* customEventFilter is, and customEventFilter is not called.
C1_DenyMatchReturnsFalse ==
    (Done("shouldCaptureError")
     /\ SomeEntryMatches(call.args.url, call.args.denyUrls))
    => (call.ret.value = FALSE /\ call.ret.effects = <<>>)

\* A url on the deny list that an allow list without a match and an
\* accepting filter would both have let through.
C1_Witness ==
    /\ Done("shouldCaptureError")
    /\ SomeEntryMatches(call.args.url, call.args.denyUrls)
    /\ Len(call.args.allowUrls) > 0
    /\ ~SomeEntryMatches(call.args.url, call.args.allowUrls)
    /\ call.args.filter = Fn("acceptAll")
    /\ call.ret.value = FALSE

\* C2: when no entry of denyUrls matches url, a non-empty allowUrls
\* without a match gives true without consulting customEventFilter;
\* otherwise a supplied customEventFilter is called once and its result is
\* the result; otherwise the result is true.
C2_DecisionOrder ==
    (Done("shouldCaptureError")
     /\ ~SomeEntryMatches(call.args.url, call.args.denyUrls))
    => IF Len(call.args.allowUrls) > 0
          /\ ~SomeEntryMatches(call.args.url, call.args.allowUrls)
       THEN call.ret.value = TRUE /\ call.ret.effects = <<>>
       ELSE IF call.args.filter # Undefined
       THEN /\ call.ret.value =
                   ApplyFilter(call.args.filter, call.args.event, call.args.url)
            /\ call.ret.effects = <<FilterCall(call.args.event, call.args.url)>>
       ELSE call.ret.value = TRUE /\ call.ret.effects = <<>>

\* The permissive miss: a rejecting filter is supplied, the allow list is
\* missed, and the result is true.
C2_Witness ==
    /\ Done("shouldCaptureError")
    /\ ~SomeEntryMatches(call.args.url, call.args.denyUrls)
    /\ Len(call.args.allowUrls) > 0
    /\ ~SomeEntryMatches(call.args.url, call.args.allowUrls)
    /\ call.args.filter = Fn("rejectAll")
    /\ call.ret.value = TRUE

---------------------------------------------------------------------------
(* Properties of the two global handlers (under Spec).                     *)

\* The places, in the effects of the last handler call, of the calls of op.
CallsOf(op) ==
    {i \in 1..Len(call.result.effects) : call.result.effects[i].op = op}

Rejection == call.op = "handleUnhandledRejection"

OnError == call.op = "handleOnError"

\* C3: when the unwrapped rejection reason (handleUnhandledRejection) or
\* the error field (handleOnError) carries a truthy __sentry_own_request__,
\* hub.captureEvent is not called, and on the rejection path neither the
\* custom filter nor stopImmediatePropagation is.
C3_OwnRequestNeverForwarded ==
    /\ (Rejection /\ Truthy(UnwrapReason(call.input))
        /\ Truthy(Get(UnwrapReason(call.input), "__sentry_own_request__")))
       => call.result.effects = <<>>
    /\ (OnError /\ Truthy(call.input.error)
        /\ Truthy(Get(call.input.error, "__sentry_own_request__")))
       => CallsOf("captureEvent") = {}

\* A marked reason that has a frame with a source URL, met with a client
\* bound and neither appJSFile nor a custom filter in the way.
C3_Witness ==
    /\ Rejection
    /\ client # Undefined /\ client.options.stackParser = Fn("lines")
    /\ appJSFile = Undefined /\ customEventFilter = Undefined
    /\ call.input.kind = "PromiseRejectionEvent"
    /\ call.input.reason.kind = "Error"
    /\ call.input.reason.__sentry_own_request__ = Bool(TRUE)
    /\ call.input.reason.stack = Arr(<<ParsedFrame(AB)>>)
    /\ call.result.ret = Bool(TRUE)

\* The classified event of the last rejection, and its source URL.
RejectionEvent == LevelError(ClassifyRejection(UnwrapReason(call.input)))

RejectionUrl ==
    IF RejectionEvent.kind = "throw" THEN Null ELSE getEventFilterUrl(RejectionEvent)

\* C4: for a reason without the marker, handleUnhandledRejection forwards
\* the event if and only if the lookup resolves a source URL, appJSFile is
\* unset or contained in it, and customEventFilter is unset or accepts;
\* a primitive reason is never forwarded.
C4_RejectionForwardedIff ==
    (Rejection /\ ~(Truthy(UnwrapReason(call.input))
                    /\ Truthy(Get(UnwrapReason(call.input), "__sentry_own_request__"))))
    => /\ (CallsOf("captureEvent") # {})
          <=> /\ Truthy(RejectionUrl)
              /\ appJSFile = Undefined
                 \/ StrIncludes(RejectionUrl.str, appJSFile.str)
              /\ customEventFilter = Undefined
                 \/ ApplyFilter(customEventFilter, RejectionEvent, RejectionUrl.str)
       /\ Cardinality(CallsOf("captureEvent")) <= 1
       /\ isPrimitive(UnwrapReason(call.input)) => CallsOf("captureEvent") = {}

\* A rejection forwarded although the configured denyUrls match its URL
\* and the configured allowUrls do not.
C4_Witness ==
    /\ Rejection
    /\ CallsOf("captureEvent") # {}
    /\ RejectionUrl = B
    /\ client.options.denyUrls = Arr(<<RegExp(TRUE, <<"b">>, FALSE)>>)
    /\ client.options.allowUrls = Arr(<<A>>)
    /\ appJSFile = Undefined

\* The events the last handler call handed to hub.captureEvent.
ForwardedEvents ==
    {call.result.effects[i].event : i \in CallsOf("captureEvent")}

HasMechanism(event, type) ==
    /\ event.level = Str(<<"error">>)
    /\ Truthy(FirstException(event))
    /\ FirstException(event).mechanism.type = Str(<<type>>)
    /\ FirstException(event).mechanism.handled = Bool(FALSE)

\* C5: with a client bound and an error without the marker, handleOnError
\* forwards exactly one event when the reported url matches no entry of
\* the configured denyUrls and nothing when it matches one; every event
\* forwarded has level "error" and mechanism {type: "onerror", handled:
\* false}.
C5_OnErrorForwardsUnlessDenied ==
    (OnError /\ client # Undefined
     /\ ~(Truthy(call.input.error)
          /\ Truthy(Get(call.input.error, "__sentry_own_request__"))))
    => /\ IF SomeEntryMatches(call.input.filename.str, getHubOptions.denyUrls.items)
          THEN CallsOf("captureEvent") = {}
          ELSE Cardinality(CallsOf("captureEvent")) = 1
       /\ \A event \in ForwardedEvents : HasMechanism(event, "onerror")

\* An uncaught thrown symbol, reported from a url no list mentions: the
\* handler raises a TypeError and nothing is forwarded.
C5_Witness ==
    /\ OnError
    /\ client # Undefined
    /\ call.input.error = Symbol
    /\ ~SomeEntryMatches(call.input.filename.str, getHubOptions.denyUrls.items)
    /\ call.result.outcome = "threw"
    /\ call.result.effects = <<>>

\* C10: on the rejection path stopImmediatePropagation is invoked at most
\* once per call, only in calls that forward the event, and before the
\* forward; the forwarded event has level "error", mechanism {type:
\* "onunhandledrejection", handled: false} and the unwrapped reason as the
\* originalException of its hint.
C10_StopOnceBeforeForward ==
    Rejection
    => /\ Cardinality(CallsOf("stopImmediatePropagation")) <= 1
       /\ CallsOf("stopImmediatePropagation") # {} => CallsOf("captureEvent") # {}
       /\ \A i \in CallsOf("stopImmediatePropagation") :
             \A j \in CallsOf("captureEvent") : i < j
       /\ \A j \in CallsOf("captureEvent") :
             /\ HasMechanism(call.result.effects[j].event, "onunhandledrejection")
             /\ call.result.effects[j].hint.originalException
                   = UnwrapReason(call.input)

\* A call that consulted the custom filter, stopped propagation and then
\* forwarded the event.
C10_Witness ==
    /\ Rejection
    /\ Len(call.result.effects) = 3
    /\ call.result.effects[1].op = "customEventFilter"
    /\ call.result.effects[2].op = "stopImmediatePropagation"
    /\ call.result.effects[3].op = "captureEvent"
    /\ call.result.effects[3].hint.originalException = call.input.reason

---------------------------------------------------------------------------
(* Properties of the event builders (under SpecUtils).                     *)

\* C6: eventFromIncompleteOnError yields a single exception whose type is
\* the error-class name the message carries after an optional "Uncaught" /
\* "exception:" prefix, and "Error" for every message in which no class
\* name is recognised; value is the message without prefix and class name.
C6_TypeIsClassNameOrError ==
    Done("eventFromIncompleteOnError")
    => LET groups == ERROR_TYPES_RE(call.args.msg.str)
       IN  /\ Len(ValuesOf(call.ret)) = 1
           /\ IF Truthy(groups) /\ groups.g1 # Undefined
              THEN /\ FirstException(call.ret).type = groups.g1
                   /\ FirstException(call.ret).value = groups.g2
              ELSE FirstException(call.ret).type = Str(<<"Error">>)

\* A message without a class name that the expression matches: the type
\* is undefined, not "Error".
C6_Witness ==
    /\ Done("eventFromIncompleteOnError")
    /\ call.args.msg = Str(<<"x is not a function">>)
    /\ FirstException(call.ret).type = Undefined
    /\ FirstException(call.ret).value = Str(<<"x is not a function">>)

\* The exception entries of what the last call of a producer returned.
ProducedExceptions ==
    IF Done("exceptionFromError") THEN {call.ret}
    ELSE IF /\ \/ Done("eventFromUnknownInput")
               \/ Done("eventFromIncompleteOnError")
               \/ Done("eventFromRejectionWithPrimitive")
            /\ call.ret.kind = "event"
    THEN {ValuesOf(call.ret)[i] : i \in 1..Len(ValuesOf(call.ret))}
    ELSE {}

\* C7: no exception entry of a produced event has both type undefined and
\* value equal to the empty string.
C7_ExceptionNeverEmpty ==
    \A ex \in ProducedExceptions : ~(ex.type = Undefined /\ ex.value = Str(<<>>))

\* The empty message: type undefined and value "".
C7_Witness ==
    /\ Done("eventFromIncompleteOnError")
    /\ call.args.msg = Str(<<>>)
    /\ FirstException(call.ret).type = Undefined
    /\ FirstException(call.ret).value = Str(<<>>)

\* event.exception.values[0].stacktrace.frames, Undefined where a step of
\* the path is missing.
FrameArray(event) ==
    Caught(Member(Member(First(Member(Member(event, "exception"), "values")),
                         "stacktrace"),
                  "frames"))

FrameItems(event) ==
    IF FrameArray(event).kind = "array" THEN FrameArray(event).items ELSE <<>>

\* C8: after enhanceEventWithInitialFrame the frame array of the first
\* exception exists; it is unchanged when it held a frame before the call;
\* otherwise it holds exactly one frame, with function "?", in_app true
\* and the given (or the document's) url; a second call with the same
\* arguments changes nothing.
C8_EnhanceFillsOnlyEmpty ==
    Done("enhanceEventWithInitialFrame")
    => /\ FrameArray(call.ret).kind = "array"
       /\ IF Len(FrameItems(call.args.event)) > 0
          THEN FrameItems(call.ret) = FrameItems(call.args.event)
          ELSE /\ Len(FrameItems(call.ret)) = 1
               /\ FrameItems(call.ret)[1].function = Str(<<"?">>)
               /\ FrameItems(call.ret)[1].in_app = Bool(TRUE)
               /\ FrameItems(call.ret)[1].filename
                     = IF Truthy(call.args.at.url) THEN call.args.at.url
                       ELSE LocationHref
       /\ call.state = "twice" => call.again = call.ret

\* Two calls on an event without frames: one injected frame after both.
C8_Witness ==
    /\ Done("enhanceEventWithInitialFrame")
    /\ call.state = "twice"
    /\ FrameArray(call.args.event) = Undefined
    /\ Len(FrameItems(call.ret)) = 1
    /\ Len(FrameItems(call.again)) = 1

\* What the stack parser of the last call does on the throwable's trace.
ParserResult ==
    StackParser(call.args.stackParser, call.args.ex.stack.items,
                getPopSize(call.args.ex))

\* The value of the Exception of a throwable: its message, the message
\* nested in it as message.error.message, or "No error message" where the
\* message is empty or absent; "Unrecoverable error caught" where neither a
\* name nor a non-empty value is left.
ValueOfThrowable(ex) ==
    LET value == IF ~Truthy(ex.message) THEN Str(<<"No error message">>)
                 ELSE IF ex.message.kind = "Object"
                         /\ ex.message.error.message.kind = "string"
                 THEN ex.message.error.message
                 ELSE ex.message
    IN  IF ex.name = Undefined /\ value = Str(<<>>)
        THEN Str(<<"Unrecoverable error caught">>)
        ELSE value

\* C9, as the code has it: when the stack parser throws, parseStackFrames
\* returns the empty sequence and the Exception has no stacktrace key; when
\* it returns frames, the Exception carries exactly them; when it returns
\* none, the Exception has no stacktrace key and is {type: name, value}
\* with value as ValueOfThrowable gives it.
C9_ParserFailureDegrades ==
    /\ (Done("parseStackFrames") /\ ParserResult.kind = "throw")
       => call.ret = <<>>
    /\ Done("exceptionFromError")
       => IF ParserResult.kind = "array" /\ Len(ParserResult.items) > 0
          THEN call.ret.stacktrace = Stacktrace(ParserResult)
          ELSE call.ret = Exception(call.args.ex.name,
                                    ValueOfThrowable(call.args.ex),
                                    Undefined, Undefined)

\* A throwable with a trace, a parser that throws, and no stacktrace key.
C9_Witness ==
    /\ Done("exceptionFromError")
    /\ ParserResult.kind = "throw"
    /\ Len(call.args.ex.stack.items) > 0
    /\ call.ret.stacktrace = Undefined

\* C9, as stated: with zero frames (or a throwing parser) the Exception is
\* {type: name, value: message}.
C9_ValueIsMessage ==
    (Done("exceptionFromError")
     /\ ~(ParserResult.kind = "array" /\ Len(ParserResult.items) > 0))
    => call.ret = Exception(call.args.ex.name, call.args.ex.message,
                            Undefined, Undefined)

---------------------------------------------------------------------------
(* Properties of the source URL lookup (under SpecUtils).                  *)

\* The places of the frames whose filename is neither marker (a hole in
\* the list is no frame).
Unmarked(frames) ==
    {i \in 1..Len(frames) :
        /\ frames[i] # Null
        /\ frames[i].filename \notin {Anonymous, NativeCode}}

\* C11: getEventFilterUrl returns the filename of the last frame of
\* event.exception.values[0].stacktrace.frames whose filename is neither
\* "<anonymous>" nor "[native code]"; null if there is no such frame, if
\* that frame has no or an empty filename, or if a part of the path is
\* absent; it raises nothing and returns neither marker.
C11_LastValidFrame ==
    Done("getEventFilterUrl")
    => /\ \/ call.ret = Null
          \/ call.ret.kind = "string" /\ Len(call.ret.str) > 0
       /\ call.ret \notin {Anonymous, NativeCode}
       /\ IF Unmarked(FrameItems(call.args.event)) = {}
          THEN call.ret = Null
          ELSE \E i \in Unmarked(FrameItems(call.args.event)) :
                  /\ \A j \in Unmarked(FrameItems(call.args.event)) : j <= i
                  /\ call.ret
                        = IF FrameItems(call.args.event)[i].filename
                                \in {Undefined, Str(<<>>)}
                          THEN Null
                          ELSE FrameItems(call.args.event)[i].filename

\* Two frames with different source URLs: the later one is returned.
C11_Witness ==
    /\ Done("getEventFilterUrl")
    /\ FrameItems(call.args.event) = <<ParsedFrame(A), ParsedFrame(B)>>
    /\ call.ret = B

---------------------------------------------------------------------------
(* Properties of all entry points (under Spec).                            *)

EntryPoints ==
    {"handleOnError", "handleUnhandledRejection", "captureExecption",
     "captureEvent", "captureMessage", "setUser", "setExtras"}

\* The calls that hand something to the reporting sink.
SinkCalls == {"captureEvent", "captureException", "captureMessage"}

\* C12: in every reachable state, the unbound one included, every entry
\* point returns normally for every input, and while no hub is bound none
\* of them forwards anything to the sink.
C12_EntryPointsReturnNormally ==
    call.op \in EntryPoints
    => /\ call.result.outcome = "returned"
       /\ hub = Undefined
          => \A i \in 1..Len(call.result.effects) :
                call.result.effects[i].op \notin SinkCalls

\* An ordinary onerror report met before any client is bound: the handler
\* raises at hub.captureEvent.
C12_Witness ==
    /\ OnError
    /\ hub = Undefined /\ client = Undefined
    /\ call.input.error = Undefined
    /\ call.input.message.kind = "string" /\ Len(call.input.message.str) > 0
    /\ call.result.outcome = "threw"

=============================================================================
